---- MODULE Spec2Model ----
(***************************************************************************)
(* A model of mii/client.py: the three client classes (MIIClient,          *)
(* MIITensorParallelClient, MIINonPersistentClient), the resolver          *)
(* mii_query_handle, and the asyncio event loop the networked clients      *)
(* drive with run_until_complete.                                          *)
(*                                                                         *)
(* The transport is a recording one: every public call, every RPC sent,    *)
(* every RPC reply, every run_inference invocation and every return is     *)
(* appended to `trace`, and the properties are stated over that trace.     *)
(***************************************************************************)
EXTENDS Integers, Sequences, FiniteSets, TLC

\* ------------------------------------------------------------------ bounds
\* The largest number of ports of a fan-out client.
MaxShards == 3
\* The number of public calls the caller makes on its handle.
MaxOps == 2
\* The number of those calls that are queries of a fan-out client.
MaxFanoutQueries == 1

\* --------------------------------------------------------------- constants
\* "port_number": 50050 of the example deployment.
BasePort == 50050

\* Tasks (mii.constants): the three kinds client.py names, the kind of the
\* example deployment, and a kind GRPC_METHOD_TABLE has no entry for.
Tasks ==
  {"TEXT_GENERATION", "QUESTION_ANSWERING", "CONVERSATIONAL", "TEXT2IMG", "UNLISTED"}

\* The keys of mii.method_table.GRPC_METHOD_TABLE.
GRPC_METHOD_TABLE == Tasks \ {"UNLISTED"}

\* task_methods.method: the RPC method of a task's table entry.
method(task) ==
  CASE task = "TEXT_GENERATION" -> "GeneratorReply"
    [] task = "QUESTION_ANSWERING" -> "QuestionAndAnswerReply"
    [] task = "CONVERSATIONAL" -> "ConversationalReply"
    [] OTHER -> "Txt2ImgReply"

\* mii.utils.get_task: the task kind of a task name (for a name of no kind
\* it knows, a kind the method table does not hold).
get_task(task_name) ==
  CASE task_name = "text-generation" -> "TEXT_GENERATION"
    [] task_name = "question-answering" -> "QUESTION_ANSWERING"
    [] task_name = "conversational" -> "CONVERSATIONAL"
    [] task_name = "text-to-image" -> "TEXT2IMG"
    [] OTHER -> "UNLISTED"

\* The task names the score files of the model hold, and the task kinds the
\* entries of mii.non_persistent_models hold.
ScoreTaskNames == {"text-generation", "text-to-image"}
RegTasks == {"TEXT_GENERATION", "QUESTION_ANSWERING"}

\* Deployment names.
Names == {"d1", "d2"}

\* The task kinds a networked handle is built with: client.py tells
\* TEXT_GENERATION from the rest, and the kinds of the table from the others.
NetTasks == {"TEXT_GENERATION", "TEXT2IMG", "UNLISTED"}

\* Request dictionaries are the sets of keys they hold; the value under a key
\* is Value(key).
Keys == {"question", "context", "query"}
Value(key) == "<" \o key \o ">"
RequestDicts == SUBSET Keys
\* **query_kwargs: the names of the keyword arguments given.
Kwargs == {{}, {"max_length"}}
\* The queries put to a networked handle: request_dict and query_kwargs.
NetQueries ==
  {[req |-> {"query"}, kw |-> {}],
   [req |-> {"question", "context"}, kw |-> {"max_length"}]}
SessionIds == {"s1", "s2"}

\* What the endpoint at a port answers to an RPC of public call k: a reply
\* message, which names the endpoint and the call it answers, or the call
\* fails with AioRpcError.
Reply(port, k) == "proto:" \o ToString(port) \o "/" \o ToString(k)

\* task_methods.unpack_response_from_proto
unpack_response_from_proto(proto_response) == "unpacked " \o proto_response
AioRpcError == "AioRpcError"
ValueError == "ValueError: unknown task"
SessionAssertion == "AssertionError: session only for text-generation"
NotFoundAssertion == "AssertionError: deployment not found"
TaskAssertion == "AssertionError: task name should be set"
MissingKeys == "Exception: requires 'question' and 'context' keys"
KeyError == "KeyError"
\* What mii.utils.import_score_file raises for a name with no readable score
\* file: the deployment-not-found failure of the configuration source.
ScoreFileError == "DeploymentNotFound: no readable score file"
Errors ==
  {AioRpcError, ValueError, SessionAssertion, NotFoundAssertion, TaskAssertion,
   MissingKeys, KeyError, ScoreFileError}
None == "None"

\* The port list of a client of n ports: one port per shard, from BasePort.
Ascending(n) == [i \in 1..n |-> BasePort + i - 1]
PortLists == {Ascending(n) : n \in 1..MaxShards}

VARIABLES
  handle,                \* the client handle the caller holds
  non_persistent_models, \* mii.non_persistent_models: name -> task, or "absent"
  call,                  \* the public call the caller is in, or Idle
  nops,                  \* the public calls begun so far
  tasks,                 \* the asyncio tasks created so far
  ready,                 \* the event loop's _ready queue: task ids, 0 = stop
  ntodo,                 \* handles left to run in this loop iteration
  stopping,              \* the loop's _stopping flag
  trace                  \* the recorded events

vars ==
  <<handle, non_persistent_models, call, nops, tasks, ready, ntodo, stopping,
    trace>>
loopvars == <<tasks, ready, ntodo, stopping>>

\* ------------------------------------------------------------------ events
E0 ==
  [ev |-> "", k |-> 0, op |-> "", port |-> 0, method |-> "", req |-> {},
   kw |-> {}, sid |-> "", val |-> "", args |-> <<>>, task |-> "", dep |-> "",
   reg |-> "", tp |-> 0]

Idle ==
  [op |-> "idle", k |-> 0, req |-> {}, kw |-> {}, sid |-> "", idx |-> 0,
   main |-> 0, pc |-> ""]

BeginEv(k, op, req, kw, sid) ==
  [E0 EXCEPT !.ev = "begin", !.k = k, !.op = op, !.req = req, !.kw = kw,
             !.sid = sid]
ReturnEv(k, op, val) ==
  [E0 EXCEPT !.ev = "return", !.k = k, !.op = op, !.val = val]

\* ------------------------------------------------------------ construction
\* MIIClient.__init__
MIIClient(task, port) ==
  [kind |-> "MIIClient", task |-> task, ports |-> <<port>>, dep |-> ""]

\* MIITensorParallelClient.__init__: one MIIClient per port, in order.
MIITensorParallelClient(task, ports) ==
  [kind |-> "MIITensorParallelClient", task |-> task, ports |-> ports, dep |-> ""]

\* MIINonPersistentClient.__init__
MIINonPersistentClient(task, deployment_name) ==
  [kind |-> "MIINonPersistentClient", task |-> task, ports |-> <<>>,
   dep |-> deployment_name]

\* Every client of the list built on the first port.
clients_on_first_port ==
  [i \in 1..Len(handle.ports) |-> MIIClient(handle.task, handle.ports[1])]

\* self.clients of a fan-out client (the client itself for an MIIClient).
clients == [i \in 1..Len(handle.ports) |-> MIIClient(handle.task, handle.ports[i])]

\* ------------------------------------------------------------- event loop
\* A coroutine wrapped in a task: loop.create_task / ensure_future.
NewTask(coro, i, c, main) ==
  [coro |-> coro, idx |-> i, port |-> IF i = 0 THEN 0 ELSE clients[i].ports[1],
   k |-> c.k, req |-> c.req, kw |-> c.kw, sid |-> c.sid, pc |-> "start",
   method |-> "", rpc |-> "", res |-> "", waiter |-> 0, main |-> main,
   first |-> 0]

\* self.asyncio_loop.run_until_complete(coro), up to the loop starting: the
\* coroutine becomes a task whose first step is queued, and whose completion
\* stops the loop.
run_until_complete(c, coro, i) ==
  /\ tasks' = Append(tasks, NewTask(coro, i, c, TRUE))
  /\ ready' = Append(ready, Len(tasks) + 1)
  /\ ntodo' = 0
  /\ stopping' = FALSE
  /\ call' = [c EXCEPT !.idx = i, !.main = Len(tasks) + 1]

\* The public call returns val to the caller, or raises it.
Returns(c, tr, val) ==
  /\ trace' = Append(tr, ReturnEv(c.k, c.op, val))
  /\ call' = Idle

\* Task t ends with res: its done-callbacks are queued with call_soon, the
\* wake-up of the task awaiting it and the loop's stop callback.
Done(t, res) ==
  /\ tasks' = [tasks EXCEPT ![t].pc = "done", ![t].res = res]
  /\ ready' = Tail(ready)
              \o (IF tasks[t].waiter # 0 THEN <<tasks[t].waiter>> ELSE <<>>)
              \o (IF tasks[t].main THEN <<0>> ELSE <<>>)

\* The stub call of task t: the request goes out on the task's channel.
SendEv(t, m) ==
  [E0 EXCEPT !.ev = "send", !.k = tasks[t].k, !.port = tasks[t].port,
             !.method = m, !.req = tasks[t].req, !.kw = tasks[t].kw,
             !.sid = tasks[t].sid]

Awaiting(t, m) ==
  /\ trace' = Append(trace, SendEv(t, m))
  /\ tasks' = [tasks EXCEPT ![t].pc = "await_rpc", ![t].method = m]
  /\ ready' = Tail(ready)

\* The handle at the head of _ready is the next step of task t.
Runs(t) ==
  /\ ntodo > 0
  /\ ready # <<>>
  /\ Head(ready) = t
  /\ ntodo' = ntodo - 1
  /\ UNCHANGED <<handle, non_persistent_models, call, nops, stopping>>

\* BaseEventLoop._run_once: the handles queued so far are this iteration's.
_run_once ==
  /\ call.main # 0
  /\ ntodo = 0
  /\ ~stopping
  /\ ready # <<>>
  /\ ntodo' = Len(ready)
  /\ UNCHANGED <<handle, non_persistent_models, call, nops, tasks, ready,
                 stopping, trace>>

\* _run_until_complete_cb: the main task is done, the loop is told to stop
\* after this iteration.
_run_until_complete_cb ==
  /\ ntodo > 0
  /\ ready # <<>>
  /\ Head(ready) = 0
  /\ ntodo' = ntodo - 1
  /\ stopping' = TRUE
  /\ ready' = Tail(ready)
  /\ UNCHANGED <<handle, non_persistent_models, call, nops, tasks, trace>>

\* The endpoint's answer to the RPC task t awaits arrives, a reply or a
\* failure: the loop finds it when it polls at the start of an iteration,
\* and queues the task's wake-up.
RpcReply(t, outcome) ==
  /\ call.main # 0
  /\ ntodo = 0
  /\ ~stopping
  /\ tasks[t].pc = "await_rpc"
  /\ tasks[t].rpc = ""
  /\ tasks' = [tasks EXCEPT ![t].rpc = outcome]
  /\ ready' = Append(ready, t)
  /\ trace' = Append(trace,
       [E0 EXCEPT !.ev = "recv", !.k = tasks[t].k, !.port = tasks[t].port,
                  !.method = tasks[t].method, !.val = outcome])
  /\ UNCHANGED <<handle, non_persistent_models, call, nops, ntodo, stopping>>

\* ---------------------------------------------------------------- MIIClient
unknown_task_unchecked(task) == FALSE

\* `self.task not in GRPC_METHOD_TABLE`
unknown_task(task) == task \notin GRPC_METHOD_TABLE

\* The stub call made and its call object not awaited: the coroutine ends at
\* once.
_request_async_response_not_awaited(t) ==
  /\ Runs(t)
  /\ tasks[t].coro = "_request_async_response"
  /\ IF unknown_task(clients[tasks[t].idx].task)
     THEN Done(t, ValueError) /\ UNCHANGED trace
     ELSE /\ trace' = Append(trace, SendEv(t, method(clients[tasks[t].idx].task)))
          /\ Done(t, None)

\* The stub call made again when it has failed.
_request_async_response_retrying(t) ==
  /\ Runs(t)
  /\ tasks[t].coro = "_request_async_response"
  /\ IF tasks[t].pc = "start"
     THEN IF unknown_task(clients[tasks[t].idx].task)
          THEN Done(t, ValueError) /\ UNCHANGED trace
          ELSE Awaiting(t, method(clients[tasks[t].idx].task))
     ELSE IF tasks[t].rpc = AioRpcError
          THEN /\ trace' = Append(trace, SendEv(t, tasks[t].method))
               /\ tasks' = [tasks EXCEPT ![t].rpc = ""]
               /\ ready' = Tail(ready)
          ELSE /\ Done(t, unpack_response_from_proto(tasks[t].rpc))
               /\ UNCHANGED trace

\* MIIClient._request_async_response, one step of it.
_request_async_response(t) ==
  /\ Runs(t)
  /\ tasks[t].coro = "_request_async_response"
  /\ IF tasks[t].pc = "start"
     THEN IF unknown_task(clients[tasks[t].idx].task)
          THEN Done(t, ValueError) /\ UNCHANGED trace
          ELSE Awaiting(t, method(clients[tasks[t].idx].task))
     ELSE /\ IF tasks[t].rpc = AioRpcError
             THEN Done(t, AioRpcError)
             ELSE Done(t, unpack_response_from_proto(tasks[t].rpc))
          /\ UNCHANGED trace

\* MIIClient.terminate_async
terminate_async(t) ==
  /\ Runs(t)
  /\ tasks[t].coro = "terminate_async"
  /\ IF tasks[t].pc = "start"
     THEN Awaiting(t, "Terminate")
     ELSE /\ Done(t, IF tasks[t].rpc = AioRpcError THEN AioRpcError ELSE None)
          /\ UNCHANGED trace

\* MIIClient.create_session_async
create_session_async(t) ==
  /\ Runs(t)
  /\ tasks[t].coro = "create_session_async"
  /\ IF tasks[t].pc = "start"
     THEN Awaiting(t, "CreateSession")
     ELSE /\ Done(t, tasks[t].rpc)
          /\ UNCHANGED trace

\* MIIClient.destroy_session_async
destroy_session_async(t) ==
  /\ Runs(t)
  /\ tasks[t].coro = "destroy_session_async"
  /\ IF tasks[t].pc = "start"
     THEN Awaiting(t, "DestroySession")
     ELSE /\ Done(t, IF tasks[t].rpc = AioRpcError THEN AioRpcError ELSE None)
          /\ UNCHANGED trace

\* MIIClient.terminate of self.clients[i], up to the loop starting.
MIIClient_terminate(c, i, tr) ==
  /\ trace' = tr
  /\ run_until_complete(c, "terminate_async", i)

\* MIIClient.create_session of self.clients[i], up to the loop starting.
MIIClient_create_session(c, i, tr) ==
  IF clients[i].task # "TEXT_GENERATION"
  THEN Returns(c, tr, SessionAssertion) /\ UNCHANGED loopvars
  ELSE trace' = tr /\ run_until_complete(c, "create_session_async", i)

MIIClient_destroy_session_unchecked(c, i, tr) ==
  trace' = tr /\ run_until_complete(c, "destroy_session_async", i)

\* MIIClient.destroy_session of self.clients[i], up to the loop starting.
MIIClient_destroy_session(c, i, tr) ==
  IF clients[i].task # "TEXT_GENERATION"
  THEN Returns(c, tr, SessionAssertion) /\ UNCHANGED loopvars
  ELSE trace' = tr /\ run_until_complete(c, "destroy_session_async", i)

\* MIIClient.query, up to the loop starting.
MIIClient_query(c, i, tr) ==
  /\ trace' = tr
  /\ run_until_complete(c, "_request_async_response", i)

\* self.clients[i].<op>(...)
client_call(c, i, tr) ==
  CASE c.op = "terminate" -> MIIClient_terminate(c, i, tr)
    [] c.op = "create_session" -> MIIClient_create_session(c, i, tr)
    [] c.op = "destroy_session" -> MIIClient_destroy_session(c, i, tr)
    [] OTHER -> MIIClient_query(c, i, tr)

\* The caller begins public call op on its handle.
Begins(op, req, kw, sid) ==
  [Idle EXCEPT !.op = op, !.k = nops + 1, !.req = req, !.kw = kw, !.sid = sid]

CanCall(kind) ==
  /\ handle.kind = kind
  /\ call.op = "idle"
  /\ nops < MaxOps
  /\ nops' = nops + 1
  /\ UNCHANGED <<handle, non_persistent_models>>

\* A public call on a single-endpoint client.
SingleEndpointCall ==
  /\ CanCall("MIIClient")
  /\ \E op \in {"query", "terminate", "create_session", "destroy_session"} :
     \E q \in (IF op = "query" THEN NetQueries ELSE {[req |-> {}, kw |-> {}]}) :
     \E sid \in (IF op \in {"create_session", "destroy_session"}
                 THEN SessionIds ELSE {""}) :
       client_call(Begins(op, q.req, q.kw, sid), 1,
                   Append(trace, BeginEv(nops + 1, op, q.req, q.kw, sid)))

\* run_until_complete returns in a call on a single-endpoint client: the
\* method returns the main task's result, or raises its exception.
SingleEndpointReturns ==
  /\ handle.kind = "MIIClient"
  /\ call.main # 0
  /\ ntodo = 0
  /\ stopping
  /\ Returns(call, trace, tasks[call.main].res)
  /\ stopping' = FALSE
  /\ UNCHANGED <<handle, non_persistent_models, nops, tasks, ready, ntodo>>

\* -------------------------------------------------- MIITensorParallelClient
awaited_last(base, n) == base + n
awaited_second(base, n) == base + (IF n >= 2 THEN 2 ELSE 1)

\* responses[0], the task _query_in_tensor_parallel awaits and returns, among
\* the n tasks created after the first `base` tasks of the loop.
awaited_response(base, n) == base + 1

\* The tasks of the other shards cancelled once responses[0] is done.
_query_in_tensor_parallel_cancelling(t) ==
  /\ Runs(t)
  /\ tasks[t].coro = "_query_in_tensor_parallel"
  /\ UNCHANGED trace
  /\ IF tasks[t].pc = "start"
     THEN LET n == Len(clients)
              base == Len(tasks)
              responses ==
                [i \in 1..n |->
                   NewTask("_request_async_response", i, tasks[t], FALSE)]
              first == awaited_response(base, n)
          IN /\ tasks' = [tasks EXCEPT ![t].pc = "await_task",
                                       ![t].first = first]
                         \o [responses EXCEPT ![first - base].waiter = t]
             /\ ready' = Tail(ready) \o [i \in 1..n |-> base + i]
     ELSE /\ tasks' =
               [u \in 1..Len(tasks) |->
                  IF u = t
                  THEN [tasks[t] EXCEPT
                          !.pc = "done",
                          !.res = IF tasks[tasks[t].first].res \in Errors
                                  THEN tasks[tasks[t].first].res
                                  ELSE "responses[0]"]
                  ELSE IF /\ tasks[u].k = tasks[t].k
                          /\ tasks[u].coro = "_request_async_response"
                          /\ tasks[u].pc # "done"
                       THEN [tasks[u] EXCEPT !.pc = "cancelled",
                                             !.res = "CancelledError"]
                       ELSE tasks[u]]
          /\ ready' = Tail(ready) \o <<0>>

\* Every response awaited, as asyncio.gather would, before the return.
_query_in_tensor_parallel_gathering(t) ==
  /\ Runs(t)
  /\ tasks[t].coro = "_query_in_tensor_parallel"
  /\ UNCHANGED trace
  /\ IF tasks[t].pc = "start"
     THEN LET n == Len(clients)
              base == Len(tasks)
              responses ==
                [i \in 1..n |->
                   [NewTask("_request_async_response", i, tasks[t], FALSE)
                      EXCEPT !.waiter = t]]
          IN /\ tasks' = [tasks EXCEPT ![t].pc = "await_task",
                                       ![t].first = awaited_response(base, n)]
                         \o responses
             /\ ready' = Tail(ready) \o [i \in 1..n |-> base + i]
     ELSE IF \E u \in 1..Len(tasks) :
               /\ tasks[u].waiter = t
               /\ tasks[u].pc # "done"
          THEN tasks' = tasks /\ ready' = Tail(ready)
          ELSE IF tasks[tasks[t].first].res \in Errors
               THEN Done(t, tasks[tasks[t].first].res)
               ELSE Done(t, "responses[0]")

\* A task created for the first client only.
_query_in_tensor_parallel_first_client(t) ==
  /\ Runs(t)
  /\ tasks[t].coro = "_query_in_tensor_parallel"
  /\ UNCHANGED trace
  /\ IF tasks[t].pc = "start"
     THEN /\ tasks' = [tasks EXCEPT ![t].pc = "await_task",
                                    ![t].first = Len(tasks) + 1]
                      \o <<[NewTask("_request_async_response", 1, tasks[t], FALSE)
                              EXCEPT !.waiter = t]>>
          /\ ready' = Tail(ready) \o <<Len(tasks) + 1>>
     ELSE IF tasks[tasks[t].first].res \in Errors
          THEN Done(t, tasks[tasks[t].first].res)
          ELSE Done(t, "responses[0]")

\* MIITensorParallelClient._query_in_tensor_parallel, one step of it.
_query_in_tensor_parallel(t) ==
  /\ Runs(t)
  /\ tasks[t].coro = "_query_in_tensor_parallel"
  /\ UNCHANGED trace
  /\ IF tasks[t].pc = "start"
     THEN LET n == Len(clients)
              base == Len(tasks)
              responses ==
                [i \in 1..n |->
                   NewTask("_request_async_response", i, tasks[t], FALSE)]
              first == awaited_response(base, n)
          IN /\ tasks' = [tasks EXCEPT ![t].pc = "await_task",
                                       ![t].first = first]
                         \o [responses EXCEPT ![first - base].waiter = t]
             /\ ready' = Tail(ready) \o [i \in 1..n |-> base + i]
     ELSE IF tasks[tasks[t].first].res \in Errors
          THEN Done(t, tasks[tasks[t].first].res)
          ELSE Done(t, "responses[0]")

\* MIITensorParallelClient.query, up to the loop starting.
MIITensorParallelClient_query ==
  /\ CanCall("MIITensorParallelClient")
  /\ Cardinality({i \in 1..Len(trace) :
                   trace[i].ev = "begin" /\ trace[i].op = "query"})
       < MaxFanoutQueries
  /\ \E q \in NetQueries :
       /\ trace' = Append(trace, BeginEv(nops + 1, "query", q.req, q.kw, ""))
       /\ run_until_complete(Begins("query", q.req, q.kw, ""),
                             "_query_in_tensor_parallel", 0)

\* MIITensorParallelClient.query called again and again by one caller, with
\* no keyword arguments, up to the loop starting.
MIITensorParallelClient_query_successively ==
  /\ CanCall("MIITensorParallelClient")
  /\ \E q \in {nq \in NetQueries : nq.kw = {}} :
       /\ trace' = Append(trace, BeginEv(nops + 1, "query", q.req, q.kw, ""))
       /\ run_until_complete(Begins("query", q.req, q.kw, ""),
                             "_query_in_tensor_parallel", 0)

\* MIITensorParallelClient.query from run_until_complete returning:
\* response.result() of the task the coroutine returned.
MIITensorParallelClient_query_returns ==
  /\ handle.kind = "MIITensorParallelClient"
  /\ call.op = "query"
  /\ call.main # 0
  /\ ntodo = 0
  /\ stopping
  /\ IF tasks[call.main].res \in Errors
     THEN Returns(call, trace, tasks[call.main].res)
     ELSE Returns(call, trace, tasks[tasks[call.main].first].res)
  /\ stopping' = FALSE
  /\ UNCHANGED <<handle, non_persistent_models, nops, tasks, ready, ntodo>>

\* MIITensorParallelClient.terminate, up to the first client's loop starting.
MIITensorParallelClient_terminate ==
  /\ CanCall("MIITensorParallelClient")
  /\ client_call(Begins("terminate", {}, {}, ""), 1,
                 Append(trace, BeginEv(nops + 1, "terminate", {}, {}, "")))

\* MIITensorParallelClient.create_session, up to the first client's loop
\* starting.
MIITensorParallelClient_create_session ==
  /\ CanCall("MIITensorParallelClient")
  /\ \E sid \in SessionIds :
       client_call(Begins("create_session", {}, {}, sid), 1,
                   Append(trace, BeginEv(nops + 1, "create_session", {}, {}, sid)))

\* MIITensorParallelClient.destroy_session, up to the first client's loop
\* starting.
MIITensorParallelClient_destroy_session ==
  /\ CanCall("MIITensorParallelClient")
  /\ \E sid \in SessionIds :
       client_call(Begins("destroy_session", {}, {}, sid), 1,
                   Append(trace, BeginEv(nops + 1, "destroy_session", {}, {}, sid)))

next_client_none(i) == 0

\* `for client in self.clients`: the index of the client after clients[i], or
\* 0 after the last.
next_client(i) == IF i < Len(clients) THEN i + 1 ELSE 0

\* The body of `for client in self.clients: client.<op>(...)` from the
\* client's run_until_complete returning: an exception leaves the loop and
\* the method; otherwise the next client is called, and after the last one
\* the method returns None.
for_client_in_clients ==
  /\ handle.kind = "MIITensorParallelClient"
  /\ call.op # "query"
  /\ call.main # 0
  /\ ntodo = 0
  /\ stopping
  /\ IF tasks[call.main].res \in Errors
     THEN /\ Returns(call, trace, tasks[call.main].res)
          /\ stopping' = FALSE
          /\ UNCHANGED <<tasks, ready, ntodo>>
     ELSE IF next_client(call.idx) # 0
          THEN client_call(call, next_client(call.idx), trace)
          ELSE /\ Returns(call, trace, None)
               /\ stopping' = FALSE
               /\ UNCHANGED <<tasks, ready, ntodo>>
  /\ UNCHANGED <<handle, non_persistent_models, nops>>

\* ---------------------------------------------------- MIINonPersistentClient
\* task_methods.create_conversation(request_dict, **query_kwargs)
create_conversation(request_dict, query_kwargs) == "Conversation"

\* What run_inference returns for public call k on the pipeline of a
\* deployment.
Result(dep, k) == "result:" \o dep \o "/" \o ToString(k)

\* task_methods.run_inference(inference_pipeline, args, kwargs): the call is
\* recorded with the pipeline's deployment, and answers Result.
InvokeEv(k, dep, args, kwargs) ==
  [E0 EXCEPT !.ev = "invoke", !.k = k, !.dep = dep, !.args = args,
             !.kw = kwargs]

\* The positional arguments MIINonPersistentClient.query builds for a task.
query_args(task, request_dict, query_kwargs) ==
  IF task = "QUESTION_ANSWERING"
  THEN <<Value("question"), Value("context")>>
  ELSE IF task = "CONVERSATIONAL"
       THEN <<create_conversation(request_dict, query_kwargs)>>
       ELSE <<Value("query")>>

\* The kwargs variable MIINonPersistentClient.query builds for a task.
query_kwargs_of(task, query_kwargs) ==
  IF task = "CONVERSATIONAL" THEN {} ELSE query_kwargs

\* The keyword arguments MIINonPersistentClient.query hands to run_inference.
run_inference_kwargs(task, query_kwargs) == query_kwargs

query_raises_if_both_missing(h, models, request_dict) ==
  IF models[h.dep] = "absent" THEN NotFoundAssertion
  ELSE IF h.task \notin GRPC_METHOD_TABLE THEN KeyError
  ELSE IF h.task = "QUESTION_ANSWERING"
       THEN IF "question" \notin request_dict /\ "context" \notin request_dict
            THEN MissingKeys
            ELSE None
  ELSE IF h.task = "CONVERSATIONAL" THEN None
  ELSE IF "query" \notin request_dict THEN KeyError
  ELSE None

\* What MIINonPersistentClient.query raises before it reaches run_inference,
\* or None when it reaches it.
query_raises(h, models, request_dict) ==
  IF models[h.dep] = "absent" THEN NotFoundAssertion
  ELSE IF h.task \notin GRPC_METHOD_TABLE THEN KeyError
  ELSE IF h.task = "QUESTION_ANSWERING"
       THEN IF "question" \notin request_dict \/ "context" \notin request_dict
            THEN MissingKeys
            ELSE None
  ELSE IF h.task = "CONVERSATIONAL" THEN None
  ELSE IF "query" \notin request_dict THEN KeyError
  ELSE None

\* MIINonPersistentClient.query
MIINonPersistentClient_query ==
  /\ CanCall("MIINonPersistentClient")
  /\ \E request_dict \in RequestDicts, query_kwargs \in Kwargs :
       LET c == Begins("query", request_dict, query_kwargs, "")
           tr == Append(trace,
                   [BeginEv(c.k, "query", request_dict, query_kwargs, "") EXCEPT
                      !.reg = non_persistent_models[handle.dep]])
           raised == query_raises(handle, non_persistent_models, request_dict)
       IN IF raised # None
          THEN Returns(c, tr, raised)
          ELSE Returns(c,
                 Append(tr, InvokeEv(c.k, handle.dep,
                          query_args(handle.task, request_dict, query_kwargs),
                          run_inference_kwargs(handle.task, query_kwargs))),
                 Result(handle.dep, c.k))
  /\ UNCHANGED loopvars

\* What MIINonPersistentClient.query raises from line 165 on, the assertion
\* of line 164 behind it: the lookups of the task's table entry and of the
\* registry entry raise KeyError, then the checks of the request.
query_raises_asserted(h, models, request_dict) ==
  IF h.task \notin GRPC_METHOD_TABLE THEN KeyError
  ELSE IF models[h.dep] = "absent" THEN KeyError
  ELSE query_raises(h, models, request_dict)

\* MIINonPersistentClient.query up to its assertion (lines 163-164), when
\* other threads run between its statements.
MIINonPersistentClient_query_asserts ==
  /\ CanCall("MIINonPersistentClient")
  /\ \E request_dict \in RequestDicts, query_kwargs \in Kwargs :
       LET c == Begins("query", request_dict, query_kwargs, "")
           tr == Append(trace,
                   [BeginEv(c.k, "query", request_dict, query_kwargs, "") EXCEPT
                      !.reg = non_persistent_models[handle.dep]])
       IN IF non_persistent_models[handle.dep] = "absent"
          THEN Returns(c, tr, NotFoundAssertion)
          ELSE trace' = tr /\ call' = [c EXCEPT !.pc = "line 165"]
  /\ UNCHANGED loopvars

\* MIINonPersistentClient.query from its assertion on (lines 165-184).
MIINonPersistentClient_query_runs ==
  /\ handle.kind = "MIINonPersistentClient"
  /\ call.op = "query"
  /\ call.pc = "line 165"
  /\ LET raised == query_raises_asserted(handle, non_persistent_models, call.req)
     IN IF raised # None
        THEN Returns(call, trace, raised)
        ELSE Returns(call,
               Append(trace, InvokeEv(call.k, handle.dep,
                        query_args(handle.task, call.req, call.kw),
                        run_inference_kwargs(handle.task, call.kw))),
               Result(handle.dep, call.k))
  /\ UNCHANGED <<handle, non_persistent_models, nops, loopvars>>

del_nothing(models, deployment_name) == models

\* del mii.non_persistent_models[deployment_name]
del(models, deployment_name) == [models EXCEPT ![deployment_name] = "absent"]

\* MIINonPersistentClient.terminate
MIINonPersistentClient_terminate ==
  /\ handle.kind = "MIINonPersistentClient"
  /\ call.op = "idle"
  /\ nops < MaxOps
  /\ nops' = nops + 1
  /\ LET c == Begins("terminate", {}, {}, "")
         tr == Append(trace,
                 [BeginEv(c.k, "terminate", {}, {}, "") EXCEPT
                    !.reg = non_persistent_models[handle.dep]])
     IN IF non_persistent_models[handle.dep] = "absent"
        THEN Returns(c, tr, KeyError) /\ UNCHANGED non_persistent_models
        ELSE /\ Returns(c, tr, None)
             /\ non_persistent_models' = del(non_persistent_models, handle.dep)
  /\ UNCHANGED <<handle, loopvars>>

\* MIINonPersistentClient.terminate called by another thread, at any point of
\* the caller's query.
MIINonPersistentClient_terminate_concurrently ==
  /\ handle.kind = "MIINonPersistentClient"
  /\ nops < MaxOps
  /\ nops' = nops + 1
  /\ trace' = trace
       \o <<[BeginEv(nops + 1, "terminate", {}, {}, "") EXCEPT
               !.reg = non_persistent_models[handle.dep]],
            ReturnEv(nops + 1, "terminate",
              IF non_persistent_models[handle.dep] = "absent"
              THEN KeyError ELSE None)>>
  /\ non_persistent_models' =
       IF non_persistent_models[handle.dep] = "absent"
       THEN non_persistent_models
       ELSE del(non_persistent_models, handle.dep)
  /\ UNCHANGED <<handle, call, loopvars>>

\* ----------------------------------------------------------------- resolver
\* What mii.utils.import_score_file(deployment_name) finds: no readable score
\* file, or one whose configs hold the task name (or None), the port number
\* and the tensor-parallel degree of the deployment.
ScoreFiles ==
  {[readable |-> FALSE, task_name |-> None, port_number |-> 0,
    tensor_parallel |-> 0]}
  \cup [readable : {TRUE}, task_name : ScoreTaskNames \cup {None},
        port_number : {BasePort}, tensor_parallel : 1..MaxShards]

\* An unreadable score file taken for a default deployment.
_get_deployment_info_defaulting(score) ==
  IF ~score.readable
  THEN [error |-> None, task |-> "text-generation", port_number |-> BasePort]
  ELSE IF score.task_name = None THEN [error |-> TaskAssertion]
  ELSE [error |-> None, task |-> score.task_name, port_number |-> score.port_number]

\* _get_deployment_info(deployment_name): the task name and the port number
\* of the configs, or the error raised.
_get_deployment_info(score) ==
  IF ~score.readable THEN [error |-> ScoreFileError]
  ELSE IF score.task_name = None THEN [error |-> TaskAssertion]
  ELSE [error |-> None, task |-> score.task_name, port_number |-> score.port_number]

query_handle_config_first(models, deployment_name, score) ==
  IF _get_deployment_info(score).error # None
  THEN [kind |-> _get_deployment_info(score).error]
  ELSE IF models[deployment_name] # "absent"
       THEN MIINonPersistentClient(models[deployment_name], deployment_name)
       ELSE MIIClient(get_task(_get_deployment_info(score).task),
                      _get_deployment_info(score).port_number)

\* mii_query_handle(deployment_name), with `score` what import_score_file
\* finds for the name: the handle returned, or the error raised (as kind).
query_handle(models, deployment_name, score) ==
  IF models[deployment_name] # "absent"
  THEN MIINonPersistentClient(models[deployment_name], deployment_name)
  ELSE IF _get_deployment_info(score).error # None
       THEN [kind |-> _get_deployment_info(score).error]
       ELSE MIIClient(get_task(_get_deployment_info(score).task),
                      _get_deployment_info(score).port_number)

\* The call of mii_query_handle as an event: the name, its entry in the
\* registry at the call, and what the score file of the name holds.
ResolveEv(k, models, deployment_name, score) ==
  [BeginEv(k, "mii_query_handle", {}, {}, "") EXCEPT
     !.dep = deployment_name, !.reg = models[deployment_name],
     !.val = IF score.readable THEN "readable" ELSE "unreadable",
     !.task = score.task_name, !.port = score.port_number,
     !.tp = score.tensor_parallel]

\* The return of mii_query_handle as an event: the class of the handle or the
\* error in val, and the handle's task, port and deployment name.
ResolvedEv(k, h) ==
  IF h.kind \in Errors
  THEN ReturnEv(k, "mii_query_handle", h.kind)
  ELSE [ReturnEv(k, "mii_query_handle", h.kind) EXCEPT
          !.task = h.task, !.dep = h.dep, !.tp = Len(h.ports),
          !.port = IF h.ports = <<>> THEN 0 ELSE h.ports[1]]

\* mii_query_handle
mii_query_handle ==
  /\ call.op = "idle"
  /\ nops < MaxOps
  /\ nops' = nops + 1
  /\ \E deployment_name \in Names, score \in ScoreFiles :
       trace' = trace
         \o <<ResolveEv(nops + 1, non_persistent_models, deployment_name, score),
              ResolvedEv(nops + 1,
                query_handle(non_persistent_models, deployment_name, score))>>
  /\ UNCHANGED <<handle, non_persistent_models, call, loopvars>>

\* ------------------------------------------------------------ specification
InitCommon ==
  /\ call = Idle
  /\ nops = 0
  /\ tasks = <<>>
  /\ ready = <<>>
  /\ ntodo = 0
  /\ stopping = FALSE
  /\ trace = <<>>

\* A networked handle, single-endpoint or fan-out, of any task kind.
Init ==
  /\ InitCommon
  /\ non_persistent_models = [n \in Names |-> "absent"]
  /\ \E task \in NetTasks :
       \/ handle = MIIClient(task, BasePort)
       \/ \E ports \in PortLists : handle = MIITensorParallelClient(task, ports)

Next ==
  \/ SingleEndpointCall
  \/ SingleEndpointReturns
  \/ MIITensorParallelClient_query
  \/ MIITensorParallelClient_query_returns
  \/ MIITensorParallelClient_terminate
  \/ MIITensorParallelClient_create_session
  \/ MIITensorParallelClient_destroy_session
  \/ for_client_in_clients
  \/ _run_once
  \/ _run_until_complete_cb
  \/ \E t \in 1..Len(tasks) : _request_async_response(t)
  \/ \E t \in 1..Len(tasks) : terminate_async(t)
  \/ \E t \in 1..Len(tasks) : create_session_async(t)
  \/ \E t \in 1..Len(tasks) : destroy_session_async(t)
  \/ \E t \in 1..Len(tasks) : _query_in_tensor_parallel(t)
  \/ \E t \in 1..Len(tasks) :
       \E outcome \in {Reply(tasks[t].port, tasks[t].k), AioRpcError} :
         RpcReply(t, outcome)

Spec == Init /\ [][Next]_vars

\* What the thread in run_until_complete does while the loop has handles to
\* run, and on the loop stopping: the steps the caller and the endpoints
\* have no say in.
LoopStep ==
  \/ _run_once
  \/ _run_until_complete_cb
  \/ \E t \in 1..Len(tasks) : _request_async_response(t)
  \/ \E t \in 1..Len(tasks) : terminate_async(t)
  \/ \E t \in 1..Len(tasks) : create_session_async(t)
  \/ \E t \in 1..Len(tasks) : destroy_session_async(t)
  \/ \E t \in 1..Len(tasks) : _query_in_tensor_parallel(t)
  \/ SingleEndpointReturns
  \/ MIITensorParallelClient_query_returns
  \/ for_client_in_clients

\* The networked clients with a running thread: the loop keeps running its
\* ready handles. Nothing is assumed of the endpoints, which may never
\* answer, nor of the caller, who may make no further call.
SpecLive == Init /\ [][Next]_vars /\ WF_vars(LoopStep)

\* A single-endpoint handle of any task kind, and its calls alone.
InitSingle ==
  /\ InitCommon
  /\ non_persistent_models = [n \in Names |-> "absent"]
  /\ \E task \in NetTasks : handle = MIIClient(task, BasePort)

NextSingle ==
  \/ SingleEndpointCall
  \/ SingleEndpointReturns
  \/ _run_once
  \/ _run_until_complete_cb
  \/ \E t \in 1..Len(tasks) : _request_async_response(t)
  \/ \E t \in 1..Len(tasks) : terminate_async(t)
  \/ \E t \in 1..Len(tasks) : create_session_async(t)
  \/ \E t \in 1..Len(tasks) : destroy_session_async(t)
  \/ \E t \in 1..Len(tasks) :
       \E outcome \in {Reply(tasks[t].port, tasks[t].k), AioRpcError} :
         RpcReply(t, outcome)

SpecSingle == InitSingle /\ [][NextSingle]_vars

\* A fan-out handle on which the caller makes one query after another.
InitFanout ==
  /\ InitCommon
  /\ non_persistent_models = [n \in Names |-> "absent"]
  /\ \E task \in NetTasks, ports \in PortLists :
       handle = MIITensorParallelClient(task, ports)

NextFanout ==
  \/ MIITensorParallelClient_query_successively
  \/ MIITensorParallelClient_query_returns
  \/ _run_once
  \/ _run_until_complete_cb
  \/ \E t \in 1..Len(tasks) : _request_async_response(t)
  \/ \E t \in 1..Len(tasks) : _query_in_tensor_parallel(t)
  \/ \E t \in 1..Len(tasks) :
       \E outcome \in {Reply(tasks[t].port, tasks[t].k), AioRpcError} :
         RpcReply(t, outcome)

SpecFanout == InitFanout /\ [][NextFanout]_vars

\* An in-process handle on deployment "d1", of any task kind, with any
\* contents of mii.non_persistent_models.
InitLocal ==
  /\ InitCommon
  /\ non_persistent_models \in [Names -> RegTasks \cup {"absent"}]
  /\ \E task \in Tasks : handle = MIINonPersistentClient(task, "d1")

NextLocal ==
  \/ MIINonPersistentClient_query
  \/ MIINonPersistentClient_terminate
  \/ mii_query_handle

SpecLocal == InitLocal /\ [][NextLocal]_vars

\* The in-process client with a second thread: the caller's query runs
\* statement by statement while the other thread terminates the deployment.
NextRace ==
  \/ MIINonPersistentClient_query_asserts
  \/ MIINonPersistentClient_query_runs
  \/ MIINonPersistentClient_terminate_concurrently

SpecRace == InitLocal /\ [][NextRace]_vars

\* --------------------------------------------------------------- properties
\* The events of kind ev of public call k, as positions of the trace.
Events(ev, k) == {i \in 1..Len(trace) : trace[i].ev = ev /\ trace[i].k = k}
\* The public calls that have returned to the caller, or raised.
Returned == {k \in 1..nops : Events("return", k) # {}}
ReturnAt(k) == CHOOSE i \in Events("return", k) : TRUE
ReturnOf(k) == trace[ReturnAt(k)]
BeginOf(k) == trace[CHOOSE i \in Events("begin", k) : TRUE]
SendsTo(k, port) == {i \in Events("send", k) : trace[i].port = port}
RecvsFrom(k, port) == {i \in Events("recv", k) : trace[i].port = port}
PortsOf(h) == {h.ports[i] : i \in 1..Len(h.ports)}
\* The tasks public call k made of _request_async_response.
ShardTasks(k) ==
  {t \in 1..Len(tasks) :
     tasks[t].k = k /\ tasks[t].coro = "_request_async_response"}
\* The returned calls of a method on a fan-out client.
FanoutReturned(ops) ==
  {k \in Returned :
     handle.kind = "MIITensorParallelClient" /\ BeginOf(k).op \in ops}
\* What a caller gets from an RPC outcome the coroutine unpacks.
Unpacked(outcome) ==
  IF outcome = AioRpcError THEN AioRpcError
  ELSE unpack_response_from_proto(outcome)

\* C1: a query of a fan-out client of N shards that has returned has made
\* exactly N shard calls, one per shard client on that client's port, each
\* started before the return (for a task of the method table: exactly N RPCs
\* sent before the return, one per port, each carrying the query's request and
\* keyword arguments), and what it returned (or raised) is what shard index 0
\* produced, whatever the other shards answered and in whatever order.
C1_FanoutQueryReturnsShard0 ==
  \A k \in FanoutReturned({"query"}) :
    /\ Cardinality(ShardTasks(k)) = Len(handle.ports)
    /\ \A i \in 1..Len(handle.ports) :
         \E t \in ShardTasks(k) :
           /\ tasks[t].idx = i
           /\ tasks[t].port = handle.ports[i]
           /\ tasks[t].pc # "start"
    /\ handle.task \in GRPC_METHOD_TABLE =>
         /\ Cardinality(Events("send", k)) = Len(handle.ports)
         /\ \A p \in PortsOf(handle) :
              \E i \in SendsTo(k, p) :
                /\ i < ReturnAt(k)
                /\ trace[i].method = method(handle.task)
                /\ trace[i].req = BeginOf(k).req
                /\ trace[i].kw = BeginOf(k).kw
         /\ \E j \in RecvsFrom(k, handle.ports[1]) :
              /\ j < ReturnAt(k)
              /\ ReturnOf(k).val = Unpacked(trace[j].val)
    /\ handle.task \notin GRPC_METHOD_TABLE => ReturnOf(k).val = ValueError

\* C1's case: a fan-out query over at least two shards has returned the
\* response of shard index 0 although every other shard had answered, with
\* another reply, before shard 0 did.
C1_Witness ==
  \E k \in FanoutReturned({"query"}) :
    /\ Len(handle.ports) >= 2
    /\ ReturnOf(k).val =
         unpack_response_from_proto(Reply(handle.ports[1], k))
    /\ \A p \in PortsOf(handle) \ {handle.ports[1]} :
         \E j \in RecvsFrom(k, p), j0 \in RecvsFrom(k, handle.ports[1]) :
           /\ j < j0
           /\ trace[j].val = Reply(p, k)
           /\ trace[j].val # trace[j0].val

\* The RPC a session or terminate method of MIIClient sends.
RpcOf(op) ==
  CASE op = "create_session" -> "CreateSession"
    [] op = "destroy_session" -> "DestroySession"
    [] OTHER -> "Terminate"
\* Some RPC of public call k failed.
SomeRpcFailed(k) == \E j \in Events("recv", k) : trace[j].val = AioRpcError

\* C2: terminate() of a fan-out client, once it has returned or raised, has
\* sent Terminate to every one of the N shards, whichever shards failed, and
\* has raised if the Terminate of any shard failed.
C2_TerminateAttemptsAllShards ==
  \A k \in FanoutReturned({"terminate"}) :
    /\ \A p \in PortsOf(handle) : SendsTo(k, p) # {}
    /\ SomeRpcFailed(k) => ReturnOf(k).val \in Errors

\* C3: create_session / destroy_session of a fan-out client of task
\* text-generation, once it has returned or raised, has sent the session RPC
\* to every shard, also when some shard failed, and has then raised the first
\* failure met.
C3_SessionAttemptsAllShards ==
  \A k \in FanoutReturned({"create_session", "destroy_session"}) :
    handle.task = "TEXT_GENERATION" =>
      /\ \A p \in PortsOf(handle) : SendsTo(k, p) # {}
      /\ SomeRpcFailed(k) => ReturnOf(k).val = AioRpcError

\* C4: create_session / destroy_session of a networked client whose task is
\* not text-generation raises the precondition (assertion) error, and no RPC
\* of that call is ever sent to any endpoint, for every session id and every
\* number of shards.
C4_SessionPrecondition ==
  \A k \in Returned :
    (/\ handle.kind \in {"MIIClient", "MIITensorParallelClient"}
     /\ BeginOf(k).op \in {"create_session", "destroy_session"}
     /\ handle.task # "TEXT_GENERATION") =>
      /\ ReturnOf(k).val = SessionAssertion
      /\ Events("send", k) = {}

\* C4's case: destroy_session on a fan-out client of several shards whose
\* task is not text-generation has raised the assertion error.
C4_Witness ==
  \E k \in FanoutReturned({"destroy_session"}) :
    /\ Len(handle.ports) >= 2
    /\ handle.task = "TEXT2IMG"
    /\ BeginOf(k).sid = "s2"
    /\ ReturnOf(k).val = SessionAssertion

\* C5: a query of a networked client whose task is not in GRPC_METHOD_TABLE
\* raises the unknown-task ValueError (on a fan-out client every shard call
\* ends with it), and no RPC of that query is ever sent on any endpoint.
C5_UnknownTaskBeforeTransport ==
  \A k \in Returned :
    (/\ handle.kind \in {"MIIClient", "MIITensorParallelClient"}
     /\ BeginOf(k).op = "query"
     /\ handle.task \notin GRPC_METHOD_TABLE) =>
      /\ ReturnOf(k).val = ValueError
      /\ Events("send", k) = {}
      /\ \A t \in ShardTasks(k) : tasks[t].res = ValueError

\* C5's case: a query on a fan-out client of several shards whose task the
\* method table does not hold has raised ValueError.
C5_Witness ==
  \E k \in FanoutReturned({"query"}) :
    /\ Len(handle.ports) >= 2
    /\ handle.task = "UNLISTED"
    /\ ReturnOf(k).val = ValueError

\* C10: on a fan-out client of N shards and task text-generation, when no
\* RPC of the call fails, create_session(id), destroy_session(id) and
\* terminate() return None having sent exactly N RPCs of their kind, one per
\* shard and each with the call's session id, and every one of them was
\* answered before the call returned.
C10_SessionFanoutCompletes ==
  \A k \in FanoutReturned({"create_session", "destroy_session", "terminate"}) :
    (handle.task = "TEXT_GENERATION" /\ ~SomeRpcFailed(k)) =>
      /\ ReturnOf(k).val = None
      /\ Cardinality(Events("send", k)) = Len(handle.ports)
      /\ \A p \in PortsOf(handle) :
           \E i \in SendsTo(k, p), j \in RecvsFrom(k, p) :
             /\ trace[i].method = RpcOf(BeginOf(k).op)
             /\ trace[i].sid = BeginOf(k).sid
             /\ i < j
             /\ j < ReturnAt(k)

\* C10's case: create_session("s1") on a 2-shard text-generation client has
\* returned after two CreateSession RPCs.
C10_Witness ==
  \E k \in FanoutReturned({"create_session"}) :
    /\ Len(handle.ports) = 2
    /\ BeginOf(k).sid = "s1"
    /\ ReturnOf(k).val = None
    /\ Cardinality({i \in Events("send", k) :
                      trace[i].method = "CreateSession"}) = 2

\* The returned calls of mii_query_handle.
Resolved == {k \in Returned : BeginOf(k).op = "mii_query_handle"}
\* The score file of a resolve can be read and names a task.
Configured(k) == BeginOf(k).val = "readable" /\ BeginOf(k).task # None

LocalReturned(op) ==
  {k \in Returned :
     handle.kind = "MIINonPersistentClient" /\ BeginOf(k).op = op}

\* C7: a second terminate() on a handle completes without error.
C7_TerminateIdempotent ==
  \A k \in LocalReturned("terminate") :
    (\E k1 \in LocalReturned("terminate") : k1 < k) =>
      ReturnOf(k).val \notin Errors

\* C8: an in-process question-answering query whose request lacks `question`
\* or lacks `context` never reaches run_inference, whatever the other fields
\* and keyword arguments, and raises the missing-keys exception when the
\* deployment is registered (the deployment-not-found assertion otherwise).
C8_QAMissingField ==
  \A k \in LocalReturned("query") :
    (/\ handle.task = "QUESTION_ANSWERING"
     /\ ~({"question", "context"} \subseteq BeginOf(k).req)) =>
      /\ Events("invoke", k) = {}
      /\ ReturnOf(k).val =
           IF BeginOf(k).reg = "absent" THEN NotFoundAssertion ELSE MissingKeys

\* C8's case: a question-answering query with `context`, `query` and a
\* keyword argument but no `question`, on a registered deployment, has raised
\* the missing-keys exception.
C8_Witness ==
  \E k \in LocalReturned("query") :
    /\ handle.task = "QUESTION_ANSWERING"
    /\ BeginOf(k).reg # "absent"
    /\ BeginOf(k).req = {"context", "query"}
    /\ BeginOf(k).kw = {"max_length"}
    /\ ReturnOf(k).val = MissingKeys

\* C9: once terminate() of the in-process client has returned, the name is
\* not in mii.non_persistent_models, every later query on the handle raises
\* deployment-not-found without reaching run_inference, and every later
\* resolve of the name returns no In-Process Client.
C9_TerminateRemovesDeployment ==
  \A k \in LocalReturned("terminate") :
    ReturnOf(k).val = None =>
      /\ non_persistent_models[handle.dep] = "absent"
      /\ \A k2 \in LocalReturned("query") :
           k2 > k => /\ ReturnOf(k2).val = NotFoundAssertion
                     /\ Events("invoke", k2) = {}
      /\ \A k2 \in Resolved :
           (k2 > k /\ BeginOf(k2).dep = handle.dep) =>
             ReturnOf(k2).val # "MIINonPersistentClient"

\* C9's case: terminate() has returned and a later query has raised
\* deployment-not-found.
C9_Witness ==
  \E k \in LocalReturned("terminate"), k2 \in LocalReturned("query") :
    /\ ReturnOf(k).val = None
    /\ k2 > k
    /\ ReturnOf(k2).val = NotFoundAssertion

\* The public calls of a method on a single-endpoint client, begun so far.
SingleEndpointCalls(op) ==
  {k \in 1..nops : handle.kind = "MIIClient" /\ BeginOf(k).op = op}

\* C11: when query A and then query B are made on one single-endpoint client,
\* A has returned before any RPC of B is sent, and every RPC of A was answered,
\* by a reply or by a failure, before that.
C11_QueryRpcsInOrder ==
  \A a, b \in SingleEndpointCalls("query") :
    a < b =>
      \A i \in Events("send", b) :
        /\ a \in Returned
        /\ ReturnAt(a) < i
        /\ \A ia \in Events("send", a) :
             \E ja \in Events("recv", a) : ia < ja /\ ja < i

\* C11's case: the RPC of a second query has been sent after the RPC of the
\* first one failed.
C11_Witness ==
  \E a, b \in SingleEndpointCalls("query") :
    /\ a < b
    /\ Events("send", b) # {}
    /\ \E ja \in Events("recv", a) : trace[ja].val = AioRpcError

\* C14: a query of a single-endpoint client never sends more than one RPC;
\* once it has returned, on a task of the method table, it has sent exactly
\* one, of the task's method and on the client's port, and when that RPC
\* failed the query has raised the failure.
C14_OneRpcNoRetry ==
  \A k \in SingleEndpointCalls("query") :
    /\ Cardinality(Events("send", k)) <= 1
    /\ (k \in Returned /\ handle.task \in GRPC_METHOD_TABLE) =>
         /\ Cardinality(Events("send", k)) = 1
         /\ \A i \in Events("send", k) :
              /\ trace[i].method = method(handle.task)
              /\ trace[i].port = handle.ports[1]
         /\ Cardinality(Events("recv", k)) = 1
         /\ \A j \in Events("recv", k) :
              ReturnOf(k).val = Unpacked(trace[j].val)

\* C14's case: a query has raised the transport failure of its one RPC.
C14_Witness ==
  \E k \in SingleEndpointCalls("query") :
    /\ k \in Returned
    /\ ReturnOf(k).val = AioRpcError
    /\ Cardinality(Events("send", k)) = 1

\* The public calls of a method on a fan-out client, begun so far.
FanoutCalls(op) ==
  {k \in 1..nops : handle.kind = "MIITensorParallelClient" /\ BeginOf(k).op = op}
\* The ports of the shards after shard 0.
OtherPorts == PortsOf(handle) \ {handle.ports[1]}

\* C12: a query of a fan-out client, on a task of the method table, whose
\* RPC to shard 0 has not been answered has not returned, whatever the other
\* shards have answered: the caller is still in the call; and what a query
\* returns is never the response of another shard.
C12_Shard0HangBlocksQuery ==
  \A k \in FanoutCalls("query") :
    /\ (handle.task \in GRPC_METHOD_TABLE /\ RecvsFrom(k, handle.ports[1]) = {}) =>
         /\ k \notin Returned
         /\ call.k = k
    /\ k \in Returned =>
         \A p \in OtherPorts :
           ReturnOf(k).val # unpack_response_from_proto(Reply(p, k))

\* C12's case: every shard but shard 0 has replied and its call has ended
\* with the unpacked reply, shard 0 has not answered, the loop has nothing
\* left to run, and the query has not returned.
C12_Witness ==
  \E k \in FanoutCalls("query") :
    /\ Len(handle.ports) >= 2
    /\ RecvsFrom(k, handle.ports[1]) = {}
    /\ \A t \in ShardTasks(k) :
         tasks[t].idx # 1 =>
           /\ tasks[t].pc = "done"
           /\ tasks[t].res = unpack_response_from_proto(Reply(tasks[t].port, k))
    /\ Cardinality(ShardTasks(k)) = Len(handle.ports)
    /\ ready = <<>>
    /\ k \notin Returned

\* The classes of client handle.
ClientKinds == {"MIIClient", "MIITensorParallelClient", "MIINonPersistentClient"}

\* C13: mii_query_handle of a name that is not in mii.non_persistent_models
\* and has no readable score file raises the deployment-not-found failure of
\* the configuration source: it returns no client handle, and no client was
\* constructed, so no channel to any port was created.
C13_ResolveUnknownFails ==
  \A k \in Resolved :
    (BeginOf(k).reg = "absent" /\ BeginOf(k).val = "unreadable") =>
      /\ ReturnOf(k).val = ScoreFileError
      /\ ReturnOf(k).val \notin ClientKinds
      /\ ReturnOf(k).tp = 0
      /\ ReturnOf(k).port = 0

\* C13's case: a name neither registered nor configured has been resolved,
\* while the other name was registered, and the resolve has raised.
C13_Witness ==
  \E k \in Resolved :
    /\ BeginOf(k).reg = "absent"
    /\ BeginOf(k).val = "unreadable"
    /\ \E n \in Names : non_persistent_models[n] # "absent"
    /\ ReturnOf(k).val \in Errors

\* The shards of the handle are one single-endpoint client per port the
\* handle was constructed with, in the order of the ports.
ShardsAsConfigured ==
  /\ Len(clients) = Len(handle.ports)
  /\ \A i \in 1..Len(handle.ports) :
       clients[i] = MIIClient(handle.task, handle.ports[i])
\* The RPCs of a public call go to the shards in the order of the ports, at
\* most one to each.
SendsInPortOrder(k) ==
  /\ \A i \in Events("send", k) : trace[i].port \in PortsOf(handle)
  /\ \A p \in PortsOf(handle) : Cardinality(SendsTo(k, p)) <= 1
  /\ \A n \in 2..Len(handle.ports) :
       \A i \in SendsTo(k, handle.ports[n]) :
         \E i0 \in SendsTo(k, handle.ports[n - 1]) : i0 < i

\* C15: a fan-out client has one single-endpoint client per configured port,
\* in the given order; no step of query, create_session, destroy_session or
\* terminate, failing or not, changes the handle or its shards, and every
\* call, also one after a failed call, addresses the shards in that order.
C15_ShardCountFixed ==
  /\ [](handle.kind = "MIITensorParallelClient" =>
          /\ ShardsAsConfigured
          /\ \A k \in 1..nops : SendsInPortOrder(k))
  /\ [][handle.kind = "MIITensorParallelClient" =>
          handle' = handle /\ clients' = clients]_vars

\* C15's case: on a fan-out client of three ports a call has failed and the
\* next call has reached the last shard.
C15_Witness ==
  \E a, b \in 1..nops :
    /\ handle.kind = "MIITensorParallelClient"
    /\ Len(handle.ports) = 3
    /\ a < b
    /\ a \in Returned
    /\ ReturnOf(a).val = AioRpcError
    /\ SendsTo(b, handle.ports[3]) # {}
    /\ Len(clients) = 3

\* C16: a query of a fan-out client whose shard 0 replied returns the
\* unpacked reply of shard 0, whether the other shards failed, replied
\* otherwise or have not answered; the calls of the other shards are not
\* cancelled: each is still awaiting its answer, or has ended with its own
\* outcome, which the caller did not get.
C16_OtherShardsUnobserved ==
  \A k \in FanoutReturned({"query"}) :
    \A j0 \in RecvsFrom(k, handle.ports[1]) :
      trace[j0].val # AioRpcError =>
        /\ ReturnOf(k).val = unpack_response_from_proto(trace[j0].val)
        /\ \A t \in ShardTasks(k) :
             tasks[t].idx # 1 =>
               /\ tasks[t].pc \in {"await_rpc", "done"}
               /\ tasks[t].pc = "await_rpc" => tasks[t].res = ""
               /\ tasks[t].pc = "done" =>
                    /\ tasks[t].res = Unpacked(tasks[t].rpc)
                    /\ tasks[t].res # ReturnOf(k).val

\* C16's case: a query over three shards has returned the reply of shard 0
\* although another shard had failed before, and the third shard, in flight
\* at the return, was answered after it.
C16_Witness ==
  \E k \in FanoutReturned({"query"}) :
    /\ Len(handle.ports) = 3
    /\ ReturnOf(k).val = unpack_response_from_proto(Reply(handle.ports[1], k))
    /\ \E j \in Events("recv", k) :
         j < ReturnAt(k) /\ trace[j].val = AioRpcError
    /\ \E j \in Events("recv", k) : j > ReturnAt(k)

\* Shard 0 has answered the RPC of fan-out query k.
Shard0Answered(k) ==
  /\ k \in 1..nops
  /\ k \in FanoutCalls("query")
  /\ RecvsFrom(k, handle.ports[1]) # {}

\* C17: once shard 0 has answered the RPC of a fan-out query, by a reply or
\* by a failure, the query returns (or raises) eventually, whether or not any
\* other shard ever answers.
C17_QueryReturnsOnShard0 ==
  \A k \in 1..MaxOps : [](Shard0Answered(k) => <>(k \in Returned))

\* C17's case: a query over several shards has returned the reply of shard 0
\* and no other shard has answered.
C17_Witness ==
  \E k \in FanoutReturned({"query"}) :
    /\ Len(handle.ports) >= 2
    /\ ReturnOf(k).val = unpack_response_from_proto(Reply(handle.ports[1], k))
    /\ \A p \in OtherPorts : SendsTo(k, p) # {} /\ RecvsFrom(k, p) = {}

\* A request that passes the checks of the in-process query of a task.
WellFormed(task, request_dict) ==
  /\ task \in GRPC_METHOD_TABLE
  /\ task = "QUESTION_ANSWERING" => {"question", "context"} \subseteq request_dict
  /\ task \notin {"QUESTION_ANSWERING", "CONVERSATIONAL"} => "query" \in request_dict

\* C18: an in-process query of a well-formed request, whatever another
\* thread's terminate() of the same deployment does and whenever it does it,
\* returns the pipeline's result or raises the deployment-not-found failure
\* of the presence check, and nothing else.
C18_RaceSuccessOrNotFound ==
  \A k \in LocalReturned("query") :
    WellFormed(handle.task, BeginOf(k).req) =>
      ReturnOf(k).val \in {Result(handle.dep, k), NotFoundAssertion}

\* C19: an in-process query of a well-formed request on a registered
\* deployment invokes run_inference exactly once, on the deployment's
\* pipeline, with (question, context) and the caller's keyword arguments for
\* question-answering, (conversation,) and no keyword arguments for
\* conversational, (query,) and the caller's keyword arguments for any other
\* task, and returns what run_inference returned.
C19_RunInferenceArguments ==
  \A k \in LocalReturned("query") :
    (BeginOf(k).reg # "absent" /\ WellFormed(handle.task, BeginOf(k).req)) =>
      /\ Cardinality(Events("invoke", k)) = 1
      /\ \A i \in Events("invoke", k) :
           /\ trace[i].dep = handle.dep
           /\ trace[i].args =
                CASE handle.task = "QUESTION_ANSWERING" ->
                       <<Value("question"), Value("context")>>
                  [] handle.task = "CONVERSATIONAL" ->
                       <<create_conversation(BeginOf(k).req, BeginOf(k).kw)>>
                  [] OTHER -> <<Value("query")>>
           /\ trace[i].kw =
                IF handle.task = "CONVERSATIONAL" THEN {} ELSE BeginOf(k).kw
      /\ ReturnOf(k).val = Result(handle.dep, k)

\* C20: when query A and then query B are made on one fan-out client, on a
\* task of the method table, A has returned before any RPC of B is sent, and
\* before A returned its RPC had been sent to every shard, not to shard 0
\* alone, however early shard 0 answered.
C20_AllShardsSentBeforeNextQuery ==
  \A a, b \in FanoutCalls("query") :
    (a < b /\ handle.task \in GRPC_METHOD_TABLE) =>
      \A ib \in Events("send", b) :
        /\ a \in Returned
        /\ ReturnAt(a) < ib
        /\ \A p \in PortsOf(handle) :
             \E ia \in SendsTo(a, p) : ia < ReturnAt(a)

\* C20's case: on a client of three shards, shard 0 answered query A before
\* any other shard did, at the first poll after the RPCs went out, A has
\* returned on it, and the RPC of query B has gone to the last shard.
C20_Witness ==
  \E a, b \in FanoutCalls("query") :
    /\ a < b
    /\ Len(handle.ports) = 3
    /\ a \in Returned
    /\ \E j0 \in RecvsFrom(a, handle.ports[1]) :
         /\ \A j \in Events("recv", a) : j0 <= j
         /\ j0 - 1 \in SendsTo(a, handle.ports[3])
    /\ SendsTo(b, handle.ports[3]) # {}

====
